---------------------------- MODULE Spec2Model ----------------------------
(*
  Model of the resilient document-store access layer of the recruitment
  application: src/app/database/mongo.py (class MongoDB) together with the
  identifier type of src/app/database/models.py.

  The driver is PyMongo 3.x (the MongoClient options the code passes exist
  only there): a ping against an unreachable server raises
  ServerSelectionTimeoutError, a subclass of AutoReconnect and of
  ConnectionFailure; a set Database handle is truthy.  The CRUD primitives are
  coroutines wrapped by tenacity's retry (3 attempts, retried on
  AutoReconnect and NetworkTimeout only).

  The environment is a plan: `outage` is the number of coming pings that
  fail, `storeFaults` the number of coming store calls that fail with a
  transient error.  The plan is drawn between operations.
*)
EXTENDS Naturals, Integers, Sequences, FiniteSets, TLC

VARIABLES
    instance,             \* MongoDB._instance is not None
    client,               \* self.client: 0 is None, n > 0 the n-th MongoClient
    db,                   \* self.db: 0 is None, n > 0 the Database of client n
    connection_attempts,  \* self._connection_attempts
    nclients,             \* MongoClient objects constructed so far
    open,                 \* clients constructed and not closed
    indexes,              \* indexes present in the store
    users,                \* documents of the users collection
    jobs,                 \* documents of the jobs collection
    applications,         \* documents of the applications collection
    activity_logs,        \* documents of the activity_logs collection
    outage,               \* environment: pings that fail next
    outageKind,           \* environment: "unreachable" or "denied"
    storeFaults,          \* environment: store calls that fail transiently next
    storeReject,          \* environment: the store refuses the call (OperationFailure)
    pc,                   \* position of the calling thread
    caller,               \* who called _connect: "init" or "op"
    attempt,              \* loop variable of _connect
    connFails,            \* failed attempts of the current/last _connect call
    connStatus,           \* "none", "running", "returned", "raised", "raised_other"
    idxAttempt,           \* tenacity attempt number of create_indexes
    op,                   \* the operation in progress / just completed
    tattempt,             \* tenacity attempt number of the CRUD primitive
    result,               \* what the operation gave its caller
    h,                    \* history of the operation in progress
    tpc,                  \* concurrent callers of _ensure_connection: position
    tatt,                 \* concurrent callers: loop variable of _connect
    ttmp                  \* concurrent callers: the client read for self.db

connVars == <<client, db, connection_attempts, nclients, open>>
storeVars == <<indexes, users, jobs, applications, activity_logs>>
envVars == <<outage, outageKind, storeFaults, storeReject>>
loopVars == <<attempt, connFails, connStatus>>
opVars == <<op, tattempt, result, h>>
threadVars == <<tpc, tatt, ttmp>>
vars == <<instance, client, db, connection_attempts, nclients, open, indexes,
          users, jobs, applications, activity_logs, outage, outageKind,
          storeFaults, storeReject, pc, caller, attempt, connFails,
          connStatus, idxAttempt, op, tattempt, result, h, tpc, tatt, ttmp>>

-----------------------------------------------------------------------------
(* Bounds of the model *)

\* MongoClient objects a behaviour may construct
MaxClients == 8
\* longest planned outage, in pings
MaxOutage == 7
\* most planned transient store faults
MaxStoreFaults == 3
\* concurrent callers of _ensure_connection
NThreads == 2
\* documents in the jobs collection
MaxJobs == 3
\* distinct created_at values
MaxTime == 2
\* largest skip passed to get_jobs
MaxSkip == 2
\* largest explicit limit passed to get_jobs
MaxLimit == 2
\* largest salary a caller passes to JobInDB
MaxSalary == 2
\* activity-log entries a behaviour may write
MaxLogs == 2

(* Program constants *)

MAX_RECONNECT_ATTEMPTS == 5
STOP_AFTER_ATTEMPT == 3
INDEX_STOP_AFTER_ATTEMPT == 3
MAX_RETRIES == 3
RECONNECT_DELAY == 2
WAIT_MULTIPLIER == 1
WAIT_MIN == 2
WAIT_MAX == 10
OID_LEN == 24
DEFAULT_LIMIT == 100

-----------------------------------------------------------------------------
(* The index set of _ensure_indexes, in creation order *)

IndexList(uniqueEmail) ==
    << [coll |-> "users",         key |-> "email",          dir |-> 1,  unique |-> uniqueEmail],
       [coll |-> "users",         key |-> "role",           dir |-> 1,  unique |-> FALSE],
       [coll |-> "jobs",          key |-> "status",         dir |-> 1,  unique |-> FALSE],
       [coll |-> "jobs",          key |-> "creator_id",     dir |-> 1,  unique |-> FALSE],
       [coll |-> "jobs",          key |-> "department",     dir |-> 1,  unique |-> FALSE],
       [coll |-> "applications",  key |-> "job_id",         dir |-> 1,  unique |-> FALSE],
       [coll |-> "applications",  key |-> "candidate_id",   dir |-> 1,  unique |-> FALSE],
       [coll |-> "applications",  key |-> "status",         dir |-> 1,  unique |-> FALSE],
       [coll |-> "interviews",    key |-> "application_id", dir |-> 1,  unique |-> FALSE],
       [coll |-> "activity_logs", key |-> "timestamp",      dir |-> -1, unique |-> FALSE] >>

\* a create_index on users.email that forgets unique=True
IndexSpecsNotUnique == IndexList(FALSE)

IndexSpecs == IndexList(TRUE)

IndexPrefix(n) == {IndexSpecs[i] : i \in 1..n}

SameKey(i, j) == i.coll = j.coll /\ i.key = j.key /\ i.dir = j.dir

\* a create_index that refuses a key that is already indexed
CreateIndexStrict(ix, spec) ==
    IF \E i \in ix : SameKey(i, spec)
    THEN [err |-> "OperationFailure", ix |-> ix]
    ELSE [err |-> "none", ix |-> ix \cup {spec}]

(* collection.create_index: an index with the same key and the same options
   is left as it is; the same key with other options is an OperationFailure *)
CreateIndex(ix, spec) ==
    IF \E i \in ix : SameKey(i, spec) /\ i # spec
    THEN [err |-> "OperationFailure", ix |-> ix]
    ELSE [err |-> "none", ix |-> ix \cup {spec}]

(* create_indexes: lines 127-144, the first n create_index calls in order,
   stopping at the first that raises *)
RECURSIVE CreateIndexes(_, _)
CreateIndexes(ix, n) ==
    IF n = 0 THEN [err |-> "none", ix |-> ix]
    ELSE LET before == CreateIndexes(ix, n - 1) IN
         IF before.err # "none" THEN before
         ELSE CreateIndex(before.ix, IndexSpecs[n])

\* "unreachable": a ping raises ServerSelectionTimeoutError (a ConnectionFailure
\* and an AutoReconnect); "denied": it raises OperationFailure.
OutageKinds == {"unreachable", "denied"}

Threads == 1..NThreads

NoOp == [name |-> "none"]
NoResult == [kind |-> "none", exc |-> "", val |-> <<>>]
NoHist == [storeCalls |-> 0, transFails |-> 0, sleeps |-> 0, probeFails |-> 0,
           connAttempts |-> 0, outage0 |-> 0, kind0 |-> "unreachable",
           faults0 |-> 0, reject0 |-> FALSE, users0 |-> {},
           fatalFails |-> 0, lostWrite |-> FALSE, jobs0 |-> {}, logs0 |-> {},
           indexes0 |-> {}, conn0 |-> <<0, 0, 0, {}>>,
           ensureCalls |-> 0, ensured |-> 0, delays |-> <<>>, waits |-> <<>>,
           applied |-> 0]

Init ==
    /\ instance = FALSE
    /\ client = 0
    /\ db = 0
    /\ connection_attempts = 0
    /\ nclients = 0
    /\ open = {}
    /\ indexes = {}
    /\ users = {}
    /\ jobs = {}
    /\ applications = {}
    /\ activity_logs = {}
    /\ outage = 0
    /\ outageKind = "unreachable"
    /\ storeFaults = 0
    /\ storeReject = FALSE
    /\ pc = "boot"
    /\ caller = "none"
    /\ attempt = 0
    /\ connFails = 0
    /\ connStatus = "none"
    /\ idxAttempt = 0
    /\ op = NoOp
    /\ tattempt = 0
    /\ result = NoResult
    /\ h = NoHist
    /\ tpc = [t \in Threads |-> "idle"]
    /\ tatt = [t \in Threads |-> 0]
    /\ ttmp = [t \in Threads |-> 0]

-----------------------------------------------------------------------------
(* Environment: the plan of faults for a call is drawn when the call starts *)

Plans(maxOutage, maxFaults, rejects) ==
    {p \in [outage : 0..maxOutage, kind : OutageKinds, faults : 0..maxFaults,
            reject : rejects] :
        p.outage = 0 => p.kind = "unreachable"}

-----------------------------------------------------------------------------
(* MongoDB.__new__ and _initialize *)

NewWith(plans) ==
    /\ pc = "boot"
    /\ ~instance
    /\ \E p \in plans :
          /\ outage' = p.outage
          /\ outageKind' = p.kind
          /\ storeFaults' = p.faults
    /\ storeReject' = FALSE
    /\ instance' = TRUE
    /\ client' = 0
    /\ db' = 0
    /\ pc' = "connect"
    /\ caller' = "init"
    /\ attempt' = 1
    /\ connFails' = 0
    /\ connStatus' = "running"
    /\ UNCHANGED <<connection_attempts, nclients, open, storeVars,
                   idxAttempt, opVars>>
    /\ UNCHANGED threadVars

New == NewWith(Plans(MaxOutage, MaxStoreFaults, {FALSE}))

\* What a call gives its caller: a returned value (a sequence of documents:
\* <<>> is None or the empty list, <<d>> one document) or an exception.
Return(v) == [kind |-> "return", exc |-> "", val |-> v]
Raise(e) == [kind |-> "raise", exc |-> e, val |-> <<>>]

\* a retry budget one attempt short
StopEarly(n) == n >= STOP_AFTER_ATTEMPT - 1

(* tenacity: stop_after_attempt(3) *)
Stop(n) == n >= STOP_AFTER_ATTEMPT

\* an index retry budget one attempt short
IndexStopEarly(n) == n >= INDEX_STOP_AFTER_ATTEMPT - 1

(* tenacity in _ensure_indexes: stop_after_attempt(3), line 119 *)
IndexStop(n) == n >= INDEX_STOP_AFTER_ATTEMPT

(* tenacity around a CRUD primitive, after an attempt raised AutoReconnect or
   NetworkTimeout: RetryError once the attempts are spent, otherwise sleep
   and run the whole primitive again.  hh is the history so far. *)
RECURSIVE Pow2(_)
Pow2(n) == IF n = 0 THEN 1 ELSE 2 * Pow2(n - 1)

Least(a, b) == IF a <= b THEN a ELSE b

Greatest(a, b) == IF a >= b THEN a ELSE b

(* tenacity wait_exponential(multiplier=1, min=2, max=10) after the failed
   attempt n: max(max(0, min), min(multiplier * 2 ** x, max)).  The exponent x
   is attempt_number - 1 in the current releases of tenacity and
   attempt_number in the earlier ones; the repository pins no release. *)
WaitExponential(n) ==
    {Greatest(Greatest(0, WAIT_MIN), Least(WAIT_MULTIPLIER * Pow2(x), WAIT_MAX))
        : x \in {n - 1, n}}

TenacityRetry(hh) ==
    IF Stop(tattempt)
    THEN /\ pc' = "done"
         /\ result' = Raise("RetryError")
         /\ tattempt' = tattempt
         /\ h' = hh
    ELSE /\ pc' = "ensure"
         /\ result' = result
         /\ tattempt' = tattempt + 1
         /\ \E w \in WaitExponential(tattempt) :
               h' = [hh EXCEPT !.sleeps = @ + 1, !.waits = Append(@, w)]

\* an exception of _ensure_connection that is logged and swallowed, so that
\* the attempt goes on to its store call
PropagateUnlessEnsuring(e, hh) ==
    IF pc = "store"
    THEN /\ pc' = "done"
         /\ result' = Raise(e)
         /\ tattempt' = tattempt
         /\ h' = hh
    ELSE /\ pc' = "store"
         /\ result' = result
         /\ tattempt' = tattempt
         /\ h' = hh

(* An attempt of a CRUD primitive ends with the non-retried exception e *)
Propagate(e, hh) ==
    /\ pc' = "done"
    /\ result' = Raise(e)
    /\ tattempt' = tattempt
    /\ h' = hh

(* pymongo.errors: the classes that are AutoReconnect or NetworkTimeout *)
AutoReconnectClasses == {"AutoReconnect", "NetworkTimeout", "ServerSelectionTimeoutError"}

\* a retry predicate as wide as the one of _ensure_indexes
RetriedAny(e) == TRUE

(* tenacity: retry_if_exception_type((AutoReconnect, NetworkTimeout)) *)
Retried(e) == e \in AutoReconnectClasses

(* An attempt of a CRUD primitive raises e *)
AttemptRaises(e, hh) ==
    IF Retried(e) THEN TenacityRetry(hh) ELSE Propagate(e, hh)

\* a delay that is the same after every failed attempt
DelayConstant(k) == RECONNECT_DELAY

(* _connect line 100: time.sleep(self.RECONNECT_DELAY * attempt) *)
Delay(k) == RECONNECT_DELAY * k

\* giving up one attempt early
GivesUpEarly(a) == a >= MAX_RECONNECT_ATTEMPTS - 1

(* _connect: `if attempt == self.MAX_RECONNECT_ATTEMPTS: raise` *)
GivesUp(a) == a = MAX_RECONNECT_ATTEMPTS

(* One iteration of the loop of _connect: a new MongoClient, then a ping *)
ConnectAttempt ==
    /\ pc = "connect"
    /\ nclients < MaxClients
    /\ LET c == nclients + 1 IN
       /\ nclients' = c
       /\ client' = c
       /\ open' = open \cup {c}
       /\ outage' = IF outage > 0 THEN outage - 1 ELSE 0
       /\ UNCHANGED <<outageKind, storeFaults, storeReject, instance,
                      storeVars, caller, idxAttempt, op>>
       /\ IF outage = 0
          THEN \* ping answered: lines 88-92
               /\ db' = c
               /\ connection_attempts' = 0
               /\ connStatus' = "returned"
               /\ UNCHANGED <<attempt, connFails>>
               /\ IF caller = "init"
                  THEN /\ pc' = "indexes"
                       /\ UNCHANGED <<tattempt, result, h>>
                  ELSE /\ pc' = "store"
                       /\ h' = [h EXCEPT !.connAttempts = @ + 1,
                                         !.ensured = @ + 1]
                       /\ UNCHANGED <<tattempt, result>>
          ELSE IF outageKind = "unreachable"
          THEN \* ConnectionFailure / ServerSelectionTimeoutError: lines 94-100
               /\ db' = db
               /\ connection_attempts' = connection_attempts + 1
               /\ connFails' = connFails + 1
               /\ IF GivesUp(attempt)
                  THEN /\ connStatus' = "raised"
                       /\ attempt' = attempt
                       /\ IF caller = "init"
                          THEN /\ pc' = "aborted"
                               /\ UNCHANGED <<tattempt, result, h>>
                          ELSE AttemptRaises("ServerSelectionTimeoutError",
                                             [h EXCEPT !.connAttempts = @ + 1])
                  ELSE /\ connStatus' = "running"
                       /\ attempt' = attempt + 1
                       /\ pc' = "connect"
                       /\ h' = [h EXCEPT
                                  !.connAttempts =
                                      IF caller = "init" THEN @ ELSE @ + 1,
                                  !.delays = Append(@, Delay(attempt))]
                       /\ UNCHANGED <<tattempt, result>>
          ELSE \* any other exception: lines 102-104
               /\ db' = db
               /\ connStatus' = "raised_other"
               /\ UNCHANGED <<connection_attempts, attempt, connFails>>
               /\ IF caller = "init"
                  THEN /\ pc' = "aborted"
                       /\ UNCHANGED <<tattempt, result, h>>
                  ELSE AttemptRaises("OperationFailure",
                                     [h EXCEPT !.connAttempts = @ + 1])
    /\ UNCHANGED threadVars

(* _ensure_indexes: create_indexes under tenacity (3 attempts, retried on any
   PyMongoError).  A failing attempt has created the indexes before the one
   that failed. *)
EnsureIndexes ==
    /\ pc = "indexes"
    /\ IF storeFaults = 0 /\ CreateIndexes(indexes, Len(IndexSpecs)).err = "none"
       THEN /\ indexes' = CreateIndexes(indexes, Len(IndexSpecs)).ix
            /\ pc' = "ready"
            /\ idxAttempt' = 0
            /\ storeFaults' = 0
            /\ attempt' = 0
            /\ connFails' = 0
            /\ connStatus' = "none"
       ELSE \E failing \in 1..Len(IndexSpecs) :
            /\ indexes' = CreateIndexes(indexes, failing - 1).ix
            /\ storeFaults' = IF storeFaults > 0 THEN storeFaults - 1 ELSE 0
            /\ idxAttempt' = idxAttempt + 1
            /\ pc' = IF IndexStop(idxAttempt + 1) THEN "aborted" ELSE "indexes"
            /\ UNCHANGED loopVars
    /\ UNCHANGED <<instance, connVars, users, jobs, applications, activity_logs,
                   outage, outageKind, storeReject, caller, opVars>>
    /\ UNCHANGED threadVars

(* close(): lines 152-159 *)
Close ==
    /\ pc = "ready"
    /\ client # 0
    /\ client \in open
    /\ open' = open \ {client}
    /\ UNCHANGED <<instance, client, db, connection_attempts, nclients,
                   storeVars, envVars, pc, caller, loopVars, idxAttempt, opVars>>
    /\ UNCHANGED threadVars

\* a probe whose failure is not handled
ReconnectsNever(e) == FALSE

(* _ensure_connection: `except (ConnectionFailure, OperationFailure)` *)
Reconnects(e) == e \in {"ConnectionFailure", "ServerSelectionTimeoutError",
                        "AutoReconnect", "NetworkTimeout", "OperationFailure"}

(* What the try block of _ensure_connection raises: "" is nothing *)
ProbeException ==
    IF client = 0 \/ db = 0 THEN "ConnectionFailure"
    ELSE IF outage = 0 THEN ""
    ELSE IF outageKind = "unreachable" THEN "ServerSelectionTimeoutError"
    ELSE "OperationFailure"

(* _ensure_connection: lines 106-114.  A ping through a closed client
   reopens it. *)
Probe ==
    /\ pc = "ensure"
    /\ LET e == ProbeException
           pinged == client # 0 /\ db # 0 IN
       /\ outage' = IF pinged /\ outage > 0 THEN outage - 1 ELSE outage
       /\ open' = IF pinged THEN open \cup {client} ELSE open
       /\ IF e = ""
          THEN /\ pc' = "store"
               /\ h' = [h EXCEPT !.ensureCalls = @ + 1, !.ensured = @ + 1]
               /\ UNCHANGED <<caller, loopVars, tattempt, result>>
          ELSE IF Reconnects(e)
          THEN /\ pc' = "connect"
               /\ caller' = "op"
               /\ attempt' = 1
               /\ connFails' = 0
               /\ connStatus' = "running"
               /\ h' = [h EXCEPT !.probeFails = @ + 1, !.ensureCalls = @ + 1,
                                 !.delays = <<>>]
               /\ UNCHANGED <<tattempt, result>>
          ELSE /\ AttemptRaises(e, [h EXCEPT !.probeFails = @ + 1,
                                             !.ensureCalls = @ + 1])
               /\ UNCHANGED <<caller, loopVars>>
    /\ UNCHANGED <<instance, client, db, connection_attempts, nclients,
                   storeVars, outageKind, storeFaults, storeReject,
                   idxAttempt, op>>
    /\ UNCHANGED threadVars

-----------------------------------------------------------------------------
(* Identifiers.  An identifier string is kept as its length, whether all its
   characters are hexadecimal digits, and a tag telling strings apart. *)

IdStr(t, l, x) == [tag |-> t, len |-> l, hex |-> x]
EmptyId == IdStr(0, 0, TRUE)                 \* "", also PyObjectId()
DocIds == {IdStr(1, OID_LEN, TRUE), IdStr(2, OID_LEN, TRUE)}
MalformedIds == {IdStr(3, 5, TRUE), IdStr(4, OID_LEN, FALSE), EmptyId}
IdStrings == DocIds \cup MalformedIds

(* bson ObjectId.is_valid on a string: 24 hexadecimal digits *)
IsValidObjectId(v) == v.len = OID_LEN /\ v.hex

(* PyObjectId.validate: models.py lines 44-48 *)
PyObjectIdValidate(v) ==
    IF ~IsValidObjectId(v) THEN Raise("ValueError") ELSE Return(<<v>>)

(* the handlers around PyObjectId.validate: `except InvalidId` *)
CatchesInvalidId(e) == e = "InvalidId"

-----------------------------------------------------------------------------
(* Documents and schemas *)

Emails == {"a@x.org", "b@x.org"}
UserRoles == {"candidate", "recruiter", "admin"}
RolesWritten == {"candidate", "superuser"}     \* values callers put in update_data
JobStatuses == {"pending", "approved"}

(* UserBase.role: regex ^(candidate|recruiter|admin)$, checked by UserInDB *)
ValidUser(d) == d.role \in UserRoles

HasUniqueEmailIndex(ix) ==
    \E i \in ix : i.coll = "users" /\ i.key = "email" /\ i.unique

(* JobBase: salary_min and salary_max are Field(..., gt=0); no validator
   relates the two *)
JobInDBValidate(j) == j.salary_min > 0 /\ j.salary_max > 0

(* JobInDB: the document of a job built with defaults for the other fields
   (status "pending", approved_at None) *)
NewJob(j) ==
    [id |-> j.id, status |-> "pending", created_at |-> 1,
     salary_min |-> j.salary_min, salary_max |-> j.salary_max,
     approved_at |-> 0]

\* an insert_one that checks the email index only
InsertUserNoIdKey(coll, ix, d) ==
    IF HasUniqueEmailIndex(ix) /\ \E e \in coll : e.email = d.email
    THEN [err |-> "DuplicateKeyError", coll |-> coll]
    ELSE [err |-> "none", coll |-> coll \cup {d}]

(* insert_one on users: _id is always unique, email when the index exists *)
InsertUser(coll, ix, d) ==
    IF \/ \E e \in coll : e.id = d.id
       \/ HasUniqueEmailIndex(ix) /\ \E e \in coll : e.email = d.email
    THEN [err |-> "DuplicateKeyError", coll |-> coll]
    ELSE [err |-> "none", coll |-> coll \cup {d}]

(* insert_document: lines 187-196, the store call and its handlers *)
InsertDocumentUsers(coll, ix, d) ==
    LET r == InsertUser(coll, ix, d) IN
    IF r.err = "DuplicateKeyError"
    THEN {[res |-> Raise("ValueError: Document with this key already exists"),
           users |-> coll]}
    ELSE {[res |-> Return(<<[inserted_id |-> d.id]>>), users |-> r.coll]}

(* get_document: lines 208-214; find_one gives any matching document *)
GetDocument(matching, valid) ==
    IF matching = {}
    THEN {Return(<<>>)}
    ELSE {IF d \in valid THEN Return(<<d>>) ELSE Raise("ValidationError") :
             d \in matching}

(* update_document with return_updated=True on users: lines 270-280 *)
UpdateUserReturning(coll, id, role) ==
    IF \A d \in coll : d.id # id
    THEN {[res |-> Return(<<>>), users |-> coll]}
    ELSE {LET post == [d EXCEPT !.role = role] IN
          [res |-> IF ValidUser(post) THEN Return(<<post>>)
                   ELSE Raise("ValidationError"),
           users |-> (coll \ {d}) \cup {post}] :
             d \in {e \in coll : e.id = id}}

(* get_documents: lines 234-248.  The store sorts, then skips, then limits;
   documents with equal sort keys come in any order. *)
Orders(S) == {f \in [1..Cardinality(S) -> S] : \A i, j \in DOMAIN f : i # j => f[i] # f[j]}

SortedDesc(S, key) ==
    {f \in Orders(S) : \A i, j \in DOMAIN f : i < j => f[i][key] >= f[j][key]}

Abs(n) == IF n < 0 THEN 0 - n ELSE n
Min(a, b) == IF a < b THEN a ELSE b

(* `if skip: cursor = cursor.skip(skip)` *)
ApplySkip(q, skip) == IF skip # 0 THEN SubSeq(q, skip + 1, Len(q)) ELSE q

(* `if limit: cursor = cursor.limit(limit)`; the driver sends abs(limit) *)
ApplyLimit(q, limit) == IF limit # 0 THEN SubSeq(q, 1, Min(Abs(limit), Len(q))) ELSE q

GetDocuments(matching, skip, limit, key) ==
    {Return(ApplyLimit(ApplySkip(q, skip), limit)) :
        q \in SortedDesc(matching, key)}

-----------------------------------------------------------------------------
(* The operations of the domain repositories *)

NoneArg == "None"

(* UserInDB.id, models.py line 79: Field(default_factory=PyObjectId,
   alias="_id").  PyObjectId() is str(), the empty string, and pydantic does
   not validate a default. *)
DefaultFactoryId == EmptyId

UserInputs == [id : DocIds \cup {EmptyId}, email : Emails, role : {"candidate"}]

CrudOps ==
    {[name |-> "create_user", user |-> u] : u \in UserInputs}
    \cup {[name |-> "get_user_by_email", email |-> e] : e \in Emails}
    \cup {[name |-> "update_user", id |-> i, role |-> r] :
             i \in IdStrings, r \in RolesWritten}
    \cup {[name |-> n, id |-> i] :
             n \in {"get_job_by_id", "get_application_by_id", "get_activity_logs"},
             i \in IdStrings}

\* The operations the connection manager is exercised with
ConnOps ==
    {o \in CrudOps : \/ o.name = "create_user" /\ o.user.id.tag = 1
                            /\ o.user.email = "a@x.org"
                     \/ o.name = "get_user_by_email" /\ o.email = "a@x.org"}

(* get_jobs: lines 351-355, the filter it composes *)
JobFilter(status, d) == status # NoneArg => d.status = status

(* What the argument check before the primitive gives: the exception that
   leaves the method, the value returned early, or "go on".  update_user,
   get_job_by_id, get_application_by_id: lines 319-329, 338-341, 373-380;
   get_activity_logs: lines 401-406 (`if user_id:` skips the empty string).
   create_job takes a JobInDB, whose construction validates its fields. *)
ArgCheck(o) ==
    IF o.name = "create_job"
    THEN IF JobInDBValidate(o.job) THEN NoResult ELSE Raise("ValidationError")
    ELSE
    IF o.name \in {"update_user", "get_job_by_id", "get_application_by_id"}
       \/ (o.name = "get_activity_logs" /\ o.id # EmptyId)
    THEN LET v == PyObjectIdValidate(o.id) IN
         IF v.kind = "return" THEN NoResult
         ELSE IF CatchesInvalidId(v.exc) THEN Return(<<>>)
         ELSE v
    ELSE NoResult

(* The store call of operation o and what the primitive makes of its answer:
   every outcome [res, users] the store allows. *)
OutcomesOn(o, U) ==
    CASE o.name = "create_user" ->
            InsertDocumentUsers(U, indexes, o.user)
      [] o.name = "get_user_by_email" ->
            {[res |-> r, users |-> U] :
                r \in GetDocument({d \in U : d.email = o.email},
                                  {d \in U : ValidUser(d)})}
      [] o.name = "update_user" ->
            UpdateUserReturning(U, o.id, o.role)
      [] o.name = "get_job_by_id" ->
            {[res |-> r, users |-> U] :
                r \in GetDocument({d \in jobs : d.id = o.id}, jobs)}
      [] o.name = "get_application_by_id" ->
            {[res |-> r, users |-> U] :
                r \in GetDocument({d \in applications : d.id = o.id},
                                  applications)}
      [] o.name = "get_activity_logs" ->
            {[res |-> r, users |-> U] :
                r \in GetDocuments({d \in activity_logs :
                                       o.id # EmptyId => d.user_id = o.id},
                                   0, DEFAULT_LIMIT, "timestamp")}
      [] o.name = "get_jobs" ->
            {[res |-> r, users |-> U] :
                r \in GetDocuments({d \in jobs : JobFilter(o.status, d)},
                                   o.skip, o.limit, "created_at")}

Outcomes(o) == OutcomesOn(o, users)

IsWrite(o) == o.name \in {"create_user", "update_user"}

(* A caller starts operation o *)
StartOpIn(ops, plans) ==
    /\ pc = "ready"
    /\ \E o \in ops, p \in plans :
          /\ op' = o
          /\ outage' = p.outage
          /\ outageKind' = p.kind
          /\ storeFaults' = p.faults
          /\ storeReject' = p.reject
          /\ h' = [NoHist EXCEPT !.outage0 = p.outage, !.kind0 = p.kind,
                                 !.faults0 = p.faults, !.reject0 = p.reject,
                                 !.users0 = users, !.jobs0 = jobs,
                                 !.logs0 = activity_logs]
          /\ IF ArgCheck(o).kind = "none"
             THEN /\ pc' = "ensure"
                  /\ tattempt' = 1
                  /\ result' = NoResult
             ELSE /\ pc' = "done"
                  /\ tattempt' = 0
                  /\ result' = ArgCheck(o)
    /\ UNCHANGED <<instance, connVars, storeVars, caller, loopVars,
                   idxAttempt>>
    /\ UNCHANGED threadVars

StartOp == StartOpIn(ConnOps, Plans(MaxOutage, MaxStoreFaults, {FALSE}))

(* The store call of the attempt in progress, and what the primitive and
   tenacity make of its answer *)
StoreCall ==
    /\ pc = "store"
    /\ IF storeFaults > 0
       THEN \* AutoReconnect / NetworkTimeout; a write may have been applied
            /\ storeFaults' = storeFaults - 1
            /\ \E out \in Outcomes(op), applied \in BOOLEAN :
                  /\ applied => IsWrite(op) /\ out.users # users
                  /\ users' = IF applied THEN out.users ELSE users
                  /\ AttemptRaises("AutoReconnect",
                                   [h EXCEPT !.storeCalls = @ + 1,
                                             !.transFails = @ + 1,
                                             !.lostWrite = @ \/ applied,
                                             !.applied =
                                                 IF applied THEN @ + 1 ELSE @])
       ELSE IF storeReject
       THEN /\ storeFaults' = storeFaults
            /\ users' = users
            /\ AttemptRaises("OperationFailure",
                             [h EXCEPT !.storeCalls = @ + 1, !.fatalFails = @ + 1])
       ELSE /\ storeFaults' = storeFaults
            /\ \E out \in Outcomes(op) :
                  /\ users' = out.users
                  /\ IF out.res.kind = "raise"
                     THEN AttemptRaises(out.res.exc,
                                        [h EXCEPT !.storeCalls = @ + 1,
                                                  !.fatalFails = @ + 1])
                     ELSE /\ result' = out.res
                          /\ pc' = "done"
                          /\ tattempt' = tattempt
                          /\ h' = [h EXCEPT !.storeCalls = @ + 1,
                                            !.applied =
                                                IF IsWrite(op) THEN @ + 1 ELSE @]
    /\ UNCHANGED <<instance, connVars, indexes, jobs, applications,
                   activity_logs, outage, outageKind, storeReject, caller,
                   loopVars, idxAttempt, op>>
    /\ UNCHANGED threadVars

(* The caller has its answer and is ready for the next call *)
Complete ==
    /\ pc = "done"
    /\ pc' = "ready"
    /\ op' = NoOp
    /\ tattempt' = 0
    /\ result' = NoResult
    /\ h' = NoHist
    /\ outage' = 0
    /\ outageKind' = "unreachable"
    /\ storeFaults' = 0
    /\ storeReject' = FALSE
    /\ attempt' = 0
    /\ connFails' = 0
    /\ connStatus' = "none"
    /\ UNCHANGED <<instance, connVars, storeVars, caller, idxAttempt>>
    /\ UNCHANGED threadVars

Next ==
    \/ New
    \/ ConnectAttempt
    \/ EnsureIndexes
    \/ Close
    \/ StartOp
    \/ Probe
    \/ StoreCall
    \/ Complete

Spec == Init /\ [][Next]_vars

(* The CRUD surface on a healthy connection, with store faults *)
NewCrud == NewWith(Plans(0, 0, {FALSE}))

StartOpCrud == StartOpIn(CrudOps, Plans(0, MaxStoreFaults, BOOLEAN))

NextCrud ==
    \/ NewCrud
    \/ ConnectAttempt
    \/ EnsureIndexes
    \/ StartOpCrud
    \/ Probe
    \/ StoreCall
    \/ Complete

SpecCrud == Init /\ [][NextCrud]_vars

-----------------------------------------------------------------------------
(* Pagination: get_jobs on a jobs collection drawn from a bounded universe,
   on an initialised access layer *)

JobIds == {IdStr(t, OID_LEN, TRUE) : t \in 1..MaxJobs}
Absent == [status |-> "absent", created_at |-> 0]
JobFields == [status : JobStatuses, created_at : 1..MaxTime] \cup {Absent}

JobCollections ==
    {{[id |-> i, status |-> f[i].status, created_at |-> f[i].created_at] :
         i \in {j \in JobIds : f[j] # Absent}} :
       f \in [JobIds -> JobFields]}

PageOps ==
    {[name |-> "get_jobs", status |-> st, skip |-> k, limit |-> n] :
        st \in {NoneArg, "pending"}, k \in 0..MaxSkip,
        n \in (0..MaxLimit) \cup {DEFAULT_LIMIT}}

(* The access layer once MongoDB() has returned *)
Initialised ==
    /\ instance = TRUE
    /\ client = 1
    /\ db = 1
    /\ connection_attempts = 0
    /\ nclients = 1
    /\ open = {1}
    /\ indexes = IndexPrefix(Len(IndexSpecs))
    /\ outage = 0
    /\ outageKind = "unreachable"
    /\ storeFaults = 0
    /\ storeReject = FALSE
    /\ pc = "ready"
    /\ caller = "init"
    /\ attempt = 0
    /\ connFails = 0
    /\ connStatus = "none"
    /\ idxAttempt = 0
    /\ op = NoOp
    /\ tattempt = 0
    /\ result = NoResult
    /\ h = NoHist

InitPage ==
    /\ Initialised
    /\ users = {}
    /\ jobs \in JobCollections
    /\ applications = {}
    /\ activity_logs = {}
    /\ tpc = [t \in Threads |-> "idle"]
    /\ tatt = [t \in Threads |-> 0]
    /\ ttmp = [t \in Threads |-> 0]

StartOpPage == StartOpIn(PageOps, Plans(0, 0, {FALSE}))

NextPage ==
    \/ StartOpPage
    \/ Probe
    \/ StoreCall
    \/ Complete

SpecPage == InitPage /\ [][NextPage]_vars

-----------------------------------------------------------------------------
(* The document primitives update_document and delete_document, called on the
   jobs collection of an initialised access layer *)

(* A filter: the empty filter, or equality on one field *)
NoFilter == [field |-> "none", value |-> NoneArg]
StatusFilter(st) == [field |-> "status", value |-> st]
IdFilter(i) == [field |-> "id", value |-> i]

Matches(d, q) ==
    CASE q.field = "none" -> TRUE
      [] q.field = "status" -> d.status = q.value
      [] q.field = "id" -> d.id = q.value

\* an update that replaces the document by the update data
ReplaceFields(d, F) ==
    [f \in DOMAIN d |-> IF f \in DOMAIN F THEN F[f]
                        ELSE IF f = "id" THEN d[f]
                        ELSE IF f = "status" THEN "pending" ELSE 1]

(* update_op = {"$set": update_data}: line 268 *)
SetFields(d, F) ==
    [f \in DOMAIN d \cup DOMAIN F |-> IF f \in DOMAIN F THEN F[f] ELSE d[f]]

(* update_many and result.modified_count: lines 278-279 *)
UpdateMany(coll, q, F) ==
    LET hit == {d \in coll : Matches(d, q)} IN
    {[res |-> Return(<<[count |->
                 Cardinality({d \in hit : SetFields(d, F) # d})]>>),
      coll |-> (coll \ hit) \cup {SetFields(d, F) : d \in hit}]}

(* find_one_and_update with return_document=AFTER, then the model built from it:
   lines 271-276.  The store picks the matching document. *)
FindOneAndUpdate(coll, q, F) ==
    IF \A d \in coll : ~Matches(d, q)
    THEN {[res |-> Return(<<>>), coll |-> coll]}
    ELSE {[res |-> Return(<<SetFields(d, F)>>),
           coll |-> (coll \ {d}) \cup {SetFields(d, F)}] :
             d \in {e \in coll : Matches(e, q)}}

(* update_document: lines 266-280 *)
UpdateDocument(coll, q, F, return_updated) ==
    IF return_updated THEN FindOneAndUpdate(coll, q, F)
    ELSE UpdateMany(coll, q, F)

(* delete_many and result.deleted_count: lines 299-300 *)
DeleteDocument(coll, q) ==
    LET hit == {d \in coll : Matches(d, q)} IN
    {[res |-> Return(<<[count |-> Cardinality(hit)]>>), coll |-> coll \ hit]}

FieldSets ==
    {[status |-> "approved"], [created_at |-> 1],
     [status |-> "approved", created_at |-> 1]}

Filters ==
    {NoFilter, StatusFilter("pending"), StatusFilter("approved"),
     IdFilter(IdStr(1, OID_LEN, TRUE))}

DocOps ==
    {[name |-> "update_document", filter |-> q, set |-> F, return_updated |-> b] :
        q \in Filters, F \in FieldSets, b \in BOOLEAN}
    \cup {[name |-> "delete_document", filter |-> q] : q \in Filters}

DocOutcomes(o, J) ==
    CASE o.name = "update_document" ->
            UpdateDocument(J, o.filter, o.set, o.return_updated)
      [] o.name = "delete_document" ->
            DeleteDocument(J, o.filter)

(* A caller starts a primitive on the jobs collection *)
StartOpDoc ==
    /\ pc = "ready"
    /\ \E o \in DocOps, p \in Plans(0, MaxStoreFaults, {FALSE}) :
          /\ op' = o
          /\ storeFaults' = p.faults
          /\ h' = [NoHist EXCEPT !.faults0 = p.faults, !.jobs0 = jobs]
    /\ pc' = "ensure"
    /\ tattempt' = 1
    /\ result' = NoResult
    /\ UNCHANGED <<instance, connVars, storeVars, outage, outageKind,
                   storeReject, caller, loopVars, idxAttempt>>
    /\ UNCHANGED threadVars

(* The store call of an attempt, and what the primitive and tenacity make of
   its answer; outs are the outcomes [res, users, jobs, logs] the store allows.
   An attempt that fails transiently may have been applied by the store before
   the failure. *)
StoreStep(outs) ==
    /\ pc = "store"
    /\ IF storeFaults > 0
       THEN /\ storeFaults' = storeFaults - 1
            /\ \E out \in outs, applied \in BOOLEAN :
                  /\ applied => <<out.users, out.jobs, out.logs>>
                                   # <<users, jobs, activity_logs>>
                  /\ users' = IF applied THEN out.users ELSE users
                  /\ jobs' = IF applied THEN out.jobs ELSE jobs
                  /\ activity_logs' = IF applied THEN out.logs ELSE activity_logs
                  /\ AttemptRaises("AutoReconnect",
                                   [h EXCEPT !.storeCalls = @ + 1,
                                             !.transFails = @ + 1,
                                             !.lostWrite = @ \/ applied])
       ELSE /\ storeFaults' = storeFaults
            /\ \E out \in outs :
                  /\ users' = out.users
                  /\ jobs' = out.jobs
                  /\ activity_logs' = out.logs
                  /\ IF out.res.kind = "raise"
                     THEN AttemptRaises(out.res.exc,
                                        [h EXCEPT !.storeCalls = @ + 1,
                                                  !.fatalFails = @ + 1])
                     ELSE /\ result' = out.res
                          /\ pc' = "done"
                          /\ tattempt' = tattempt
                          /\ h' = [h EXCEPT !.storeCalls = @ + 1]
    /\ UNCHANGED <<instance, connVars, indexes, applications, outage,
                   outageKind, storeReject, caller, loopVars, idxAttempt, op>>
    /\ UNCHANGED threadVars

StoreCallDoc ==
    StoreStep({[res |-> x.res, users |-> users, jobs |-> x.coll,
                logs |-> activity_logs] : x \in DocOutcomes(op, jobs)})

(* The jobs collections the primitives are called on *)
DocJobCollections ==
    {{[id |-> i, status |-> f[i].status, created_at |-> f[i].created_at] :
         i \in {j \in DocIds : f[j] # Absent}} :
       f \in [DocIds -> JobFields]}

InitDoc ==
    /\ Initialised
    /\ users = {}
    /\ jobs \in DocJobCollections
    /\ applications = {}
    /\ activity_logs = {}
    /\ tpc = [t \in Threads |-> "idle"]
    /\ tatt = [t \in Threads |-> 0]
    /\ ttmp = [t \in Threads |-> 0]

NextDoc ==
    \/ StartOpDoc
    \/ Probe
    \/ StoreCallDoc
    \/ Complete

SpecDoc == InitDoc /\ [][NextDoc]_vars

-----------------------------------------------------------------------------
(* The domain repositories on jobs and activity logs, from an initialised
   access layer with empty collections *)

JobInputs == [id : DocIds, salary_min : 0..MaxSalary, salary_max : 0..MaxSalary]

LogInputs == [user_id : {IdStr(1, OID_LEN, TRUE)}, timestamp : 1..2]

(* insert_document: lines 187-196.  insert_one refuses a second document with
   the same _id. *)
InsertDocument(coll, d) ==
    IF \E e \in coll : e.id = d.id
    THEN [res |-> Raise("ValueError: Document with this key already exists"),
          coll |-> coll]
    ELSE [res |-> Return(<<[inserted_id |-> d.id]>>), coll |-> coll \cup {d}]

(* An ActivityLog has no _id field: insert_one gives the entry a fresh one *)
FreshLogId(coll) ==
    CHOOSE n \in 1..(Cardinality(coll) + 1) : \A e \in coll : e.id # n

\* a log write that keeps one entry per user
LogActivityUpsert(coll, a) ==
    {e \in coll : e.user_id # a.user_id}
        \cup {[id |-> FreshLogId(coll), user_id |-> a.user_id,
               timestamp |-> a.timestamp]}

(* log_activity: lines 388-391, insert_document("activity_logs", activity) *)
LogActivity(coll, a) ==
    coll \cup {[id |-> FreshLogId(coll), user_id |-> a.user_id,
                timestamp |-> a.timestamp]}

(* The store call of a domain operation: every outcome [res, users, jobs,
   logs] the store allows *)
RepoOutcomes(o) ==
    CASE o.name = "create_job" ->
            LET r == InsertDocument(jobs, NewJob(o.job)) IN
            {[res |-> r.res, users |-> users, jobs |-> r.coll,
              logs |-> activity_logs]}
      [] o.name = "log_activity" ->
            {[res |-> Return(<<[ok |-> TRUE]>>), users |-> users, jobs |-> jobs,
              logs |-> LogActivity(activity_logs, o.activity)]}
      [] OTHER ->
            {[res |-> x.res, users |-> x.users, jobs |-> jobs,
              logs |-> activity_logs] : x \in OutcomesOn(o, users)}

StoreCallRepo == StoreStep(RepoOutcomes(op))

(* The attributes of a MongoDB object: lines 52-423 *)
MongoDBAttributes ==
    {"_instance", "_connection_attempts", "MAX_RECONNECT_ATTEMPTS",
     "RECONNECT_DELAY", "client", "db", "_initialize", "_connect",
     "_ensure_connection", "_ensure_indexes", "close", "ping",
     "insert_document", "get_document", "get_documents", "update_document",
     "delete_document", "get_user_by_email", "create_user", "update_user",
     "create_job", "get_job_by_id", "get_jobs", "create_application",
     "get_application_by_id", "create_interview", "log_activity",
     "get_activity_logs", "get_collection"}

(* AdminService.__init__: admin_service.py lines 23-28, self.db = mongodb and
   then self.db.users, self.db.jobs, ... *)
AdminServiceInit ==
    IF {"users", "jobs", "applications", "activity_logs"} \subseteq MongoDBAttributes
    THEN NoResult
    ELSE Raise("AttributeError")

(* AdminService.approve_job: admin_service.py lines 145-176.  The store is
   reached through awaited calls of the synchronous driver; the resulting
   TypeError leaves as HTTPException(500) before any update is sent. *)
ApproveJobResult(id) ==
    IF AdminServiceInit.kind = "raise" THEN AdminServiceInit
    ELSE IF ~IsValidObjectId(id) THEN Raise("HTTPException 400")
    ELSE Raise("HTTPException 500")

ApproveOps == {[name |-> "approve_job", id |-> i] : i \in DocIds}

(* A caller builds an AdminService and calls approve_job *)
ApproveJob ==
    /\ pc = "ready"
    /\ \E o \in ApproveOps :
          /\ op' = o
          /\ result' = ApproveJobResult(o.id)
    /\ h' = [NoHist EXCEPT !.jobs0 = jobs, !.logs0 = activity_logs]
    /\ pc' = "done"
    /\ tattempt' = 0
    /\ UNCHANGED <<instance, connVars, storeVars, envVars, caller, loopVars,
                   idxAttempt>>
    /\ UNCHANGED threadVars

JobOps ==
    {[name |-> "create_job", job |-> j] : j \in JobInputs}
    \cup {[name |-> "get_jobs", status |-> "pending", skip |-> 0,
           limit |-> DEFAULT_LIMIT]}
    \cup {[name |-> "get_job_by_id", id |-> i] : i \in DocIds}

StartOpJobs == StartOpIn(JobOps, Plans(0, MaxStoreFaults, {FALSE}))

InitRepo ==
    /\ Initialised
    /\ users = {}
    /\ jobs = {}
    /\ applications = {}
    /\ activity_logs = {}
    /\ tpc = [t \in Threads |-> "idle"]
    /\ tatt = [t \in Threads |-> 0]
    /\ ttmp = [t \in Threads |-> 0]

NextJobs ==
    \/ StartOpJobs
    \/ ApproveJob
    \/ Probe
    \/ StoreCallRepo
    \/ Complete

SpecJobs == InitRepo /\ [][NextJobs]_vars

(* Every domain repository operation of the class, on small inputs *)
RepoOps ==
    ConnOps
    \cup {[name |-> "update_user", id |-> IdStr(1, OID_LEN, TRUE), role |-> r] :
             r \in RolesWritten}
    \cup {[name |-> "create_job",
           job |-> [id |-> IdStr(1, OID_LEN, TRUE), salary_min |-> 1,
                    salary_max |-> 1]],
          [name |-> "get_jobs", status |-> NoneArg, skip |-> 0,
           limit |-> DEFAULT_LIMIT]}
    \cup {[name |-> n, id |-> IdStr(1, OID_LEN, TRUE)] :
             n \in {"get_job_by_id", "get_application_by_id", "get_activity_logs"}}
    \cup {[name |-> "get_activity_logs", id |-> EmptyId]}
    \cup {[name |-> "log_activity", activity |-> a] : a \in LogInputs}

StartOpRepo ==
    StartOpIn({o \in RepoOps : o.name = "log_activity"
                                  => Cardinality(activity_logs) < MaxLogs},
              Plans(0, MaxStoreFaults, {FALSE}))

NextRepo ==
    \/ StartOpRepo
    \/ Probe
    \/ StoreCallRepo
    \/ Complete

SpecRepo == InitRepo /\ [][NextRepo]_vars

-----------------------------------------------------------------------------
(* Construction, index provisioning and close() of the access layer *)

(* MongoDB() when MongoClient(...) itself raises (an unusable MONGO_URI):
   lines 66-67, 75 and 102-104.  No client object exists afterwards. *)
NewBadConfig ==
    /\ pc = "boot"
    /\ ~instance
    /\ instance' = TRUE
    /\ client' = 0
    /\ db' = 0
    /\ pc' = "aborted"
    /\ caller' = "init"
    /\ attempt' = 1
    /\ connFails' = 0
    /\ connStatus' = "raised_other"
    /\ UNCHANGED <<connection_attempts, nclients, open, storeVars, envVars,
                   idxAttempt, opVars>>
    /\ UNCHANGED threadVars

(* _ensure_indexes() called again on the initialised access layer: lines
   116-150.  faults attempts fail transiently, each after some of the
   create_index calls; an operation through a closed client reopens it. *)
EnsureIndexesAgain ==
    /\ pc = "ready"
    /\ \E faults \in 0..MaxStoreFaults, k \in 0..(Len(IndexSpecs) - 1) :
          LET clean == CreateIndexes(indexes, Len(IndexSpecs)) IN
          /\ h' = [NoHist EXCEPT !.faults0 = faults, !.indexes0 = indexes]
          /\ IF faults > 0 /\ IndexStop(faults)
             THEN /\ indexes' = CreateIndexes(indexes, k).ix
                  /\ result' = Raise("RetryError")
             ELSE /\ indexes' = clean.ix
                  /\ result' = IF clean.err = "none" THEN Return(<<>>)
                               ELSE Raise("RetryError")
    /\ op' = [name |-> "_ensure_indexes"]
    /\ open' = IF db # 0 THEN open \cup {db} ELSE open
    /\ UNCHANGED <<instance, client, db, connection_attempts, nclients, users,
                   jobs, applications, activity_logs, envVars, pc, caller,
                   loopVars, idxAttempt, tattempt>>
    /\ UNCHANGED threadVars

\* a close() without the `if self.client` test and without the try
CloseHandlerUnguarded(c, o) ==
    IF c = 0 THEN [res |-> Raise("AttributeError"), open |-> o]
    ELSE [res |-> Return(<<>>), open |-> o \ {c}]

(* close(): lines 154-159.  MongoClient.close() on a closed client does
   nothing, and whatever it raised would be logged, not raised. *)
CloseHandler(c, o) ==
    IF c # 0 THEN [res |-> Return(<<>>), open |-> o \ {c}]
    ELSE [res |-> Return(<<>>), open |-> o]

(* A caller calls close() on the instance, initialised or not *)
CloseCall ==
    /\ pc \in {"ready", "aborted"}
    /\ instance
    /\ op' = [name |-> "close"]
    /\ result' = CloseHandler(client, open).res
    /\ open' = CloseHandler(client, open).open
    /\ h' = [NoHist EXCEPT !.conn0 = <<client, db, connection_attempts, open>>]
    /\ UNCHANGED <<instance, client, db, connection_attempts, nclients,
                   storeVars, envVars, pc, caller, loopVars, idxAttempt,
                   tattempt>>
    /\ UNCHANGED threadVars

NextInit ==
    \/ New
    \/ NewBadConfig
    \/ ConnectAttempt
    \/ EnsureIndexes
    \/ EnsureIndexesAgain
    \/ CloseCall

SpecInit == Init /\ [][NextInit]_vars

-----------------------------------------------------------------------------
(* The singleton.  __new__, lines 58-62, stores the new object in
   cls._instance before it calls _initialize(); a call that finds
   cls._instance set returns it and initialises nothing. *)

NewAgain ==
    /\ pc \in {"ready", "aborted"}
    /\ instance
    /\ op' = [name |-> "MongoDB"]
    /\ result' = Return(<<[client |-> client, db |-> db]>>)
    /\ UNCHANGED <<instance, connVars, storeVars, envVars, pc, caller,
                   loopVars, idxAttempt, tattempt, h>>
    /\ UNCHANGED threadVars

NextSingleton ==
    \/ New
    \/ NewBadConfig
    \/ ConnectAttempt
    \/ EnsureIndexes
    \/ NewAgain

SpecSingleton == Init /\ [][NextSingleton]_vars

-----------------------------------------------------------------------------
(* The database package, src/app/database/__init__.py: MongoDBConnection.
   `attempt` is the loop variable of range(max_retries): 0, 1, 2. *)

(* `time.sleep(retry_delay)`, line 60.  The module has
   `from datetime import time` (line 8) and no `import time`: time is the
   class datetime.time, which has no attribute sleep. *)
TimeSleep == Raise("AttributeError")

(* `if attempt == max_retries - 1: raise`, lines 57-59 *)
LastRetry(a) == a = MAX_RETRIES - 1

(* MongoDBConnection(): __new__ and the first lines of
   _initialize_connection, lines 21-32 *)
NewConnection ==
    /\ pc = "boot"
    /\ ~instance
    /\ \E p \in Plans(MaxOutage, MaxStoreFaults, {FALSE}) :
          /\ outage' = p.outage
          /\ outageKind' = p.kind
          /\ storeFaults' = p.faults
          /\ h' = [NoHist EXCEPT !.outage0 = p.outage, !.kind0 = p.kind,
                                 !.faults0 = p.faults]
    /\ storeReject' = FALSE
    /\ instance' = TRUE
    /\ client' = 0
    /\ db' = 0
    /\ pc' = "connect"
    /\ caller' = "package"
    /\ attempt' = 0
    /\ connFails' = 0
    /\ connStatus' = "running"
    /\ op' = [name |-> "MongoDBConnection"]
    /\ UNCHANGED <<connection_attempts, nclients, open, storeVars,
                   idxAttempt, tattempt, result>>
    /\ UNCHANGED threadVars

(* What the except clause of lines 55-60 does with a ConnectionFailure *)
ConnectionFailureHandler(e) ==
    IF LastRetry(attempt)
    THEN /\ pc' = "aborted"
         /\ connStatus' = "raised"
         /\ attempt' = attempt
         /\ result' = Raise(e)
    ELSE IF TimeSleep.kind = "raise"
    THEN /\ pc' = "aborted"
         /\ connStatus' = "raised_other"
         /\ attempt' = attempt
         /\ result' = TimeSleep
    ELSE /\ pc' = "connect"
         /\ connStatus' = "running"
         /\ attempt' = attempt + 1
         /\ result' = result

(* One iteration of the loop of _initialize_connection, lines 34-60: a new
   MongoClient, a ping, _initialize_collections.  A create_index that fails
   transiently raises AutoReconnect, a ConnectionFailure. *)
InitializeAttempt ==
    /\ pc = "connect"
    /\ caller = "package"
    /\ nclients < MaxClients
    /\ LET c == nclients + 1 IN
       /\ nclients' = c
       /\ client' = c
       /\ open' = open \cup {c}
       /\ outage' = IF outage > 0 THEN outage - 1 ELSE 0
       /\ IF outage = 0
          THEN /\ db' = c
               /\ IF storeFaults = 0
                  THEN /\ indexes' = CreateIndexes(indexes, Len(IndexSpecs)).ix
                       /\ storeFaults' = 0
                       /\ connFails' = connFails
                       /\ pc' = "ready"
                       /\ connStatus' = "returned"
                       /\ result' = Return(<<>>)
                       /\ attempt' = attempt
                  ELSE /\ \E failing \in 1..Len(IndexSpecs) :
                             indexes' = CreateIndexes(indexes, failing - 1).ix
                       /\ storeFaults' = storeFaults - 1
                       /\ connFails' = connFails + 1
                       /\ ConnectionFailureHandler("AutoReconnect")
          ELSE IF outageKind = "unreachable"
          THEN /\ db' = db
               /\ connFails' = connFails + 1
               /\ UNCHANGED <<indexes, storeFaults>>
               /\ ConnectionFailureHandler("ServerSelectionTimeoutError")
          ELSE \* OperationFailure is not caught by the except clause
               /\ db' = db
               /\ pc' = "aborted"
               /\ connStatus' = "raised_other"
               /\ result' = Raise("OperationFailure")
               /\ UNCHANGED <<indexes, storeFaults, connFails, attempt>>
    /\ UNCHANGED <<instance, connection_attempts, users, jobs, applications,
                   activity_logs, outageKind, storeReject, caller, idxAttempt,
                   op, tattempt, h>>
    /\ UNCHANGED threadVars

PackageCollections == {"users", "jobs", "applications", "interviews",
                       "activity_logs"}

(* get_collection, lines 93-97, through the shortcuts of lines 108-121 *)
PackageGetCollection ==
    /\ pc = "ready"
    /\ caller = "package"
    /\ \E n \in PackageCollections :
          /\ op' = [name |-> "get_collection", coll |-> n]
          /\ result' = IF client = 0 \/ db = 0 THEN Raise("RuntimeError")
                        ELSE Return(<<[db |-> db, coll |-> n]>>)
    /\ UNCHANGED <<instance, connVars, storeVars, envVars, pc, caller,
                   loopVars, idxAttempt, tattempt, h>>
    /\ UNCHANGED threadVars

NextPackage ==
    \/ NewConnection
    \/ InitializeAttempt
    \/ PackageGetCollection

SpecPackage == Init /\ [][NextPackage]_vars

-----------------------------------------------------------------------------
(* The five CRUD primitives during outages and store faults *)

PrimitiveOps ==
    {[name |-> "create_user",
      user |-> [id |-> IdStr(1, OID_LEN, TRUE), email |-> "a@x.org",
                role |-> "candidate"]],
     [name |-> "get_user_by_email", email |-> "a@x.org"],
     [name |-> "get_jobs", status |-> NoneArg, skip |-> 0, limit |-> DEFAULT_LIMIT],
     [name |-> "update_document", filter |-> IdFilter(IdStr(1, OID_LEN, TRUE)),
      set |-> [status |-> "approved"], return_updated |-> TRUE],
     [name |-> "delete_document", filter |-> IdFilter(IdStr(1, OID_LEN, TRUE))]}

(* insert_document, get_document, get_documents, update_document and
   delete_document: the store call of each *)
PrimitiveOutcomes(o) ==
    IF o.name \in {"update_document", "delete_document"}
    THEN {[res |-> x.res, users |-> users, jobs |-> x.coll,
           logs |-> activity_logs] : x \in DocOutcomes(o, jobs)}
    ELSE RepoOutcomes(o)

StoreCallPrimitive == StoreStep(PrimitiveOutcomes(op))

StartOpPrimitive ==
    StartOpIn(PrimitiveOps, Plans(MaxOutage, MaxStoreFaults, {FALSE}))

InitPrimitive ==
    /\ Initialised
    /\ users = {}
    /\ jobs = {[id |-> IdStr(1, OID_LEN, TRUE), status |-> "pending",
                created_at |-> 1]}
    /\ applications = {}
    /\ activity_logs = {}
    /\ tpc = [t \in Threads |-> "idle"]
    /\ tatt = [t \in Threads |-> 0]
    /\ ttmp = [t \in Threads |-> 0]

NextPrimitive ==
    \/ StartOpPrimitive
    \/ Probe
    \/ ConnectAttempt
    \/ StoreCallPrimitive
    \/ Complete

SpecPrimitive == InitPrimitive /\ [][NextPrimitive]_vars

-----------------------------------------------------------------------------
(* Concurrent callers of _ensure_connection on an initialised access layer,
   during an outage.  The steps are the attribute reads and writes of
   _ensure_connection and _connect; there is no lock in the code. *)

InitConc ==
    /\ Initialised
    /\ users = {}
    /\ jobs = {}
    /\ applications = {}
    /\ activity_logs = {}
    /\ tpc = [t \in Threads |-> "idle"]
    /\ tatt = [t \in Threads |-> 0]
    /\ ttmp = [t \in Threads |-> 0]

seqVars == <<instance, storeVars, outageKind, storeFaults, storeReject, pc,
             caller, loopVars, idxAttempt, opVars>>

(* The outage begins: the pings that follow fail *)
OutageBegins ==
    /\ \A t \in Threads : tpc[t] = "idle"
    /\ outage = 0
    /\ \E o \in 1..MaxOutage : outage' = o
    /\ UNCHANGED <<seqVars, connVars, threadVars>>

(* A caller enters _ensure_connection *)
TCall(t) ==
    /\ tpc[t] = "idle"
    /\ outage > 0
    /\ tpc' = [tpc EXCEPT ![t] = "probe"]
    /\ UNCHANGED <<seqVars, connVars, outage, tatt, ttmp>>

(* lines 109-114: the check of the handles and the ping *)
TProbe(t) ==
    /\ tpc[t] = "probe"
    /\ IF client # 0 /\ db # 0 /\ outage = 0
       THEN /\ tpc' = [tpc EXCEPT ![t] = "returned"]
            /\ UNCHANGED <<outage, tatt>>
       ELSE /\ tpc' = [tpc EXCEPT ![t] = "new"]
            /\ tatt' = [tatt EXCEPT ![t] = 1]
            /\ outage' = IF client # 0 /\ db # 0 THEN outage - 1 ELSE outage
    /\ UNCHANGED <<seqVars, connVars, ttmp>>

(* lines 75-85: self.client = MongoClient(...) *)
TNewClient(t) ==
    /\ tpc[t] = "new"
    /\ nclients < MaxClients
    /\ nclients' = nclients + 1
    /\ client' = nclients + 1
    /\ open' = open \cup {nclients + 1}
    /\ tpc' = [tpc EXCEPT ![t] = "ping"]
    /\ UNCHANGED <<seqVars, db, connection_attempts, outage, tatt, ttmp>>

(* line 88: self.client.admin.command('ping'), and lines 94-100 when it fails *)
TPing(t) ==
    /\ tpc[t] = "ping"
    /\ IF outage = 0
       THEN /\ tpc' = [tpc EXCEPT ![t] = "read"]
            /\ UNCHANGED <<outage, connection_attempts, tatt>>
       ELSE /\ outage' = outage - 1
            /\ connection_attempts' = connection_attempts + 1
            /\ IF GivesUp(tatt[t])
               THEN /\ tpc' = [tpc EXCEPT ![t] = "raised"]
                    /\ tatt' = tatt
               ELSE /\ tpc' = [tpc EXCEPT ![t] = "new"]
                    /\ tatt' = [tatt EXCEPT ![t] = @ + 1]
    /\ UNCHANGED <<seqVars, client, db, nclients, open, ttmp>>

(* line 89, right-hand side: self.client[settings.MONGO_DB_NAME] *)
TReadClient(t) ==
    /\ tpc[t] = "read"
    /\ ttmp' = [ttmp EXCEPT ![t] = client]
    /\ tpc' = [tpc EXCEPT ![t] = "store"]
    /\ UNCHANGED <<seqVars, connVars, outage, tatt>>

(* line 89, the assignment to self.db, and lines 90-92 *)
TStoreDb(t) ==
    /\ tpc[t] = "store"
    /\ db' = ttmp[t]
    /\ connection_attempts' = 0
    /\ tpc' = [tpc EXCEPT ![t] = "returned"]
    /\ UNCHANGED <<seqVars, client, nclients, open, outage, tatt, ttmp>>

(* All callers are back; the next round of calls may begin *)
TReset ==
    /\ \A t \in Threads : tpc[t] \in {"returned", "raised"}
    /\ tpc' = [t \in Threads |-> "idle"]
    /\ tatt' = [t \in Threads |-> 0]
    /\ ttmp' = [t \in Threads |-> 0]
    /\ outage' = 0
    /\ UNCHANGED <<seqVars, connVars>>

NextConc ==
    \/ OutageBegins
    \/ TReset
    \/ \E t \in Threads :
          \/ TCall(t)
          \/ TProbe(t)
          \/ TNewClient(t)
          \/ TPing(t)
          \/ TReadClient(t)
          \/ TStoreDb(t)

SpecConc == InitConc /\ [][NextConc]_vars

-----------------------------------------------------------------------------
(* Connection manager: properties checked under Spec *)

\* C1: when every attempt of a _connect() call fails with a connection
\* failure, the call makes exactly 5 attempts and then raises: it has not
\* raised after fewer than 5 failures, and after the 5th it is no longer
\* looping.
C1_ExactlyFiveAttempts ==
    /\ connFails <= 5
    /\ connStatus = "raised" => connFails = 5
    /\ connStatus = "running" => connFails < 5 /\ attempt = connFails + 1

C1_Witness ==
    /\ connStatus = "raised"
    /\ connFails = 5
    /\ caller = "op"

\* The result and the users collection are those a healthy connection gives
\* for the operation, started on the users collection U
HealthyOutcome(o, U) ==
    \E x \in OutcomesOn(o, U) : result = x.res /\ users = x.users

\* C2: an operation whose first liveness probe fails, and for which the next
\* N < 5 connection attempts fail with a connection failure before one
\* succeeds (an outage of N + 1 pings), completes with the result a healthy
\* connection gives; no connection error reaches the caller.
C2_ReconnectTransparent ==
    (/\ op.name # "none"
     /\ h.outage0 \in 1..5
     /\ h.kind0 = "unreachable"
     /\ h.faults0 = 0
     /\ ~h.reject0)
    => /\ result.exc \notin {"RetryError", "ServerSelectionTimeoutError",
                             "ConnectionFailure", "AutoReconnect"}
       /\ pc = "done" => HealthyOutcome(op, h.users0) /\ h.connAttempts = h.outage0

C2_Witness ==
    /\ pc = "done"
    /\ h.outage0 = 5
    /\ h.kind0 = "unreachable"
    /\ h.faults0 = 0
    /\ h.probeFails = 1
    /\ h.connAttempts = 5
    /\ result.kind = "return"
    /\ result.val # <<>>

\* C4: the process holds at most one open connection handle at any time
C4_AtMostOneOpenClient == Cardinality(open) <= 1

-----------------------------------------------------------------------------
(* Generic document repository: properties checked under SpecCrud *)

ConflictError == Raise("ValueError: Document with this key already exists")

SameEmail(U, e) == {d \in U : d.email = e}

\* C5: an insert of a user whose email is already in the collection fails
\* with the conflict error (or, when the store call failed transiently on
\* every attempt, with the retry error), and the collection holds exactly
\* one document with that email afterwards; no two users ever share an email.
C5_DuplicateEmailConflict ==
    /\ \A d, e \in users : d.email = e.email => d = e
    /\ (/\ pc = "done"
        /\ op.name = "create_user"
        /\ SameEmail(h.users0, op.user.email) # {})
       => /\ result.kind = "raise"
          /\ h.faults0 < 3 /\ ~h.reject0 => result = ConflictError
          /\ Cardinality(SameEmail(users, op.user.email)) = 1

C5_Witness ==
    /\ pc = "done"
    /\ op.name = "create_user"
    /\ SameEmail(h.users0, op.user.email) # {}
    /\ \A d \in h.users0 : d.id # op.user.id
    /\ result = ConflictError

\* C6: on a healthy connection, a primitive whose store call fails with a
\* transient error on its first k < 3 attempts makes k + 1 store calls and
\* gives the caller what the store answered, not a retry error; when the
\* store call fails transiently on all 3 attempts the caller gets the retry
\* error after exactly 3 store calls.
C6_TransientRetried ==
    (pc = "done" /\ tattempt > 0 /\ h.outage0 = 0)
    => /\ h.faults0 < 3 =>
            /\ h.storeCalls = h.faults0 + 1
            /\ result.exc # "RetryError"
            /\ (~h.lostWrite /\ ~h.reject0) => HealthyOutcome(op, h.users0)
       /\ h.faults0 >= 3 =>
            /\ h.storeCalls = 3
            /\ result = Raise("RetryError")

C6_Witness ==
    /\ pc = "done"
    /\ h.faults0 = 2
    /\ h.storeCalls = 3
    /\ result.kind = "return"
    /\ result.val # <<>>

NonTransient == {"ValueError: Document with this key already exists",
                 "OperationFailure", "ValidationError"}

\* C7: once a store call of a primitive has failed with a non-transient error
\* (duplicate key, operation failure, validation failure of the returned
\* document), the invocation is over: that error is what the caller gets, no
\* store call and no backoff sleep follows it.
C7_FatalNotRetried ==
    h.fatalFails > 0
    => /\ pc = "done"
       /\ result.kind = "raise"
       /\ result.exc \in NonTransient
       /\ h.fatalFails = 1
       /\ h.storeCalls = h.transFails + 1
       /\ h.sleeps = h.transFails

C7_Witness ==
    /\ pc = "done"
    /\ h.fatalFails = 1
    /\ h.storeCalls = 1
    /\ h.sleeps = 0
    /\ result = Raise("ValidationError")

\* C8: for a malformed identifier string, update_user, get_job_by_id and
\* get_application_by_id return None, get_activity_logs returns the empty
\* list; none raises and none issues a store call.
C8_MalformedIdIsNotFound ==
    (/\ pc = "done"
     /\ op.name \in {"update_user", "get_job_by_id", "get_application_by_id",
                     "get_activity_logs"}
     /\ op.id \in MalformedIds)
    => result = Return(<<>>) /\ h.storeCalls = 0

-----------------------------------------------------------------------------
(* Pagination: properties checked under SpecPage *)

Matching(o) == {d \in jobs : JobFilter(o.status, d)}

Page(q, k, n) == SubSeq(q, k + 1, Min(k + n, Len(q)))

\* C9 as stated: get_jobs with skip k and limit n returns the documents at
\* positions k+1..k+n of the matching documents ordered by descending
\* created_at, in strictly descending created_at order.
C9_StrictPage ==
    (pc = "done" /\ op.name = "get_jobs")
    => /\ \E q \in SortedDesc(Matching(op), "created_at") :
             result = Return(Page(q, op.skip, op.limit))
       /\ \A i, j \in DOMAIN result.val :
             i < j => result.val[i].created_at > result.val[j].created_at

\* C10: get_documents never returns more than `limit` documents, whatever
\* limit the caller passes (100 when the caller passes none).
C10_LimitBoundsResult ==
    (pc = "done" /\ op.name = "get_jobs" /\ result.kind = "return")
    => Len(result.val) <= op.limit

-----------------------------------------------------------------------------
(* Concurrent reconnect: property checked under SpecConc *)

InConnect == {"new", "ping", "read", "store"}

\* C3: with several concurrent callers of _ensure_connection during an
\* outage, at most one execution of _connect() is in progress at any moment,
\* and once all callers have returned the client and db handles are set, open
\* and of the same connection.
C3_ReconnectOneAtATime ==
    /\ Cardinality({t \in Threads : tpc[t] \in InConnect}) <= 1
    /\ (\A t \in Threads : tpc[t] = "returned")
       => client # 0 /\ client \in open /\ db = client

-----------------------------------------------------------------------------
(* Document primitives: properties checked under SpecDoc *)

ById(coll, i) == {d \in coll : d.id = i}

\* C11: update_document with field set F and filter Q changes only the fields
\* named in F and only in documents matching Q: no document is added or
\* removed, a document that did not match Q when the call began is the same
\* afterwards, and every field outside F of a matching document keeps its
\* value.  This holds at every moment of the call, retried attempts included.
C11_UpdateFrame ==
    op.name = "update_document"
    => /\ {d.id : d \in jobs} = {d.id : d \in h.jobs0}
       /\ \A d0 \in h.jobs0 : \A d \in ById(jobs, d0.id) :
             /\ ~Matches(d0, op.filter) => d = d0
             /\ DOMAIN d = DOMAIN d0
             /\ \A f \in DOMAIN d0 \ DOMAIN op.set : d[f] = d0[f]

C11_Witness ==
    /\ pc = "done"
    /\ op.name = "update_document"
    /\ op.filter = StatusFilter("pending")
    /\ op.set = [created_at |-> 1]
    /\ ~op.return_updated
    /\ \E d0 \in h.jobs0 : d0.status = "pending" /\ d0 \notin jobs
    /\ \E d0 \in h.jobs0 : d0.status = "approved" /\ d0.created_at = 2 /\ d0 \in jobs

Modified == {d0 \in h.jobs0 : d0 \notin jobs}

\* C12: update_document with return_updated=True modifies at most one
\* document and returns its post-update image, or nothing when no document
\* matches; with return_updated=False it applies the field set to all matching
\* documents and returns the number of documents modified.
C12_UpdateOneOrMany ==
    (pc = "done" /\ op.name = "update_document" /\ result.kind = "return")
    => LET hit == {d \in h.jobs0 : Matches(d, op.filter)} IN
       IF op.return_updated
       THEN /\ Cardinality(Modified) <= 1
            /\ hit = {} => result.val = <<>> /\ jobs = h.jobs0
            /\ hit # {} => /\ Len(result.val) = 1
                           /\ result.val[1] \in jobs
                           /\ \E d0 \in hit : result.val[1] = SetFields(d0, op.set)
       ELSE /\ jobs = (h.jobs0 \ hit) \cup {SetFields(d, op.set) : d \in hit}
            /\ result.val = <<[count |-> Cardinality(Modified)]>>

\* C13: delete_document returns the number of documents the call removed from
\* the collection, in every execution, retried attempts included.
C13_DeleteCount ==
    (pc = "done" /\ op.name = "delete_document" /\ result.kind = "return")
    => result.val = <<[count |-> Cardinality(h.jobs0 \ jobs)]>>

-----------------------------------------------------------------------------
(* User documents: property checked under SpecCrud *)

\* C14: after any sequence of create_user and update_user calls, whether they
\* return or raise, every document in the users collection has a role in
\* {candidate, recruiter, admin}.
C14_RoleAlwaysValid == \A d \in users : d.role \in {"candidate", "recruiter", "admin"}

-----------------------------------------------------------------------------
(* Jobs: properties checked under SpecJobs *)

\* C15: every job stored through create_job has salary_min > 0,
\* salary_max > 0 and salary_min <= salary_max; a job with
\* salary_min > salary_max is rejected with a validation error and never
\* reaches the jobs collection.
C15_SalaryRange ==
    /\ \A d \in jobs :
          d.salary_min > 0 /\ d.salary_max > 0 /\ d.salary_min <= d.salary_max
    /\ (pc = "done" /\ op.name = "create_job"
            /\ op.job.salary_min > op.job.salary_max)
       => result = Raise("ValidationError") /\ jobs = h.jobs0

PendingListings ==
    GetDocuments({d \in jobs : JobFilter("pending", d)}, 0, DEFAULT_LIMIT,
                 "created_at")

\* C17: after the approve-job operation has been applied to a stored pending
\* job, a listing of jobs filtered by status=pending no longer contains the
\* job, and fetching the job by its identifier returns it, without error,
\* with status approved and approved_at set.
C17_ApprovedJobVisible ==
    (pc = "done" /\ op.name = "approve_job"
        /\ \E d \in h.jobs0 : d.id = op.id /\ d.status = "pending")
    => /\ \A r \in PendingListings :
             \A i \in DOMAIN r.val : r.val[i].id # op.id
       /\ \A r \in GetDocument({d \in jobs : d.id = op.id}, jobs) :
             /\ r.kind = "return"
             /\ Len(r.val) = 1
             /\ r.val[1].status = "approved"
             /\ r.val[1].approved_at # 0

-----------------------------------------------------------------------------
(* Activity logs: property checked under SpecRepo *)

\* C16: no domain repository operation updates or deletes an activity-log
\* entry: every entry once written to activity_logs stays in the collection
\* with all its fields unchanged, across every step of every call.
C16_LogsAppendOnly == [][\A e \in activity_logs : e \in activity_logs']_vars

C16_Witness ==
    /\ pc = "done"
    /\ op.name = "update_user"
    /\ result.kind = "return"
    /\ result.val # <<>>
    /\ jobs # {}
    /\ Cardinality(activity_logs) = 2

-----------------------------------------------------------------------------
(* Provisioning and close(): properties checked under SpecInit *)

\* C18: running index provisioning a second time after a successful first run
\* raises no error (as long as fewer than 3 of its attempts fail transiently)
\* and leaves the set of indexes on every collection identical to the set
\* after the first run.
C18_ProvisioningIdempotent ==
    (op.name = "_ensure_indexes" /\ h.faults0 < 3)
    => /\ result = Return(<<>>)
       /\ indexes = h.indexes0
       /\ \A i, j \in indexes : SameKey(i, j) => i = j

C18_Witness ==
    /\ op.name = "_ensure_indexes"
    /\ h.faults0 = 0
    /\ result = Return(<<>>)
    /\ h.indexes0 = IndexPrefix(Len(IndexSpecs))
    /\ Cardinality(indexes) = 10

\* C19: if index creation keeps failing, _ensure_indexes attempts creation 3
\* times and then raises, so construction fails: it is never abandoned after
\* fewer than 3 attempts, never tried a 4th time, and initialisation never
\* completes normally while a required index is missing.
C19_IndexFailureAborts ==
    /\ pc = "ready" => indexes = IndexPrefix(Len(IndexSpecs))
    /\ pc = "indexes" => idxAttempt < 3
    /\ (pc = "aborted" /\ connStatus = "returned") => idxAttempt = 3

C19_Witness ==
    /\ pc = "aborted"
    /\ connStatus = "returned"
    /\ idxAttempt = 3
    /\ indexes # IndexPrefix(Len(IndexSpecs))

\* C20: close() raises no error, also when no connection exists and when it
\* is called twice in a row; called when no connection is open, it leaves the
\* client handle, the db handle, the attempt counter and the set of open
\* connections exactly as it found them.
C20_CloseIdempotent ==
    op.name = "close"
    => /\ result = Return(<<>>)
       /\ <<client, db, connection_attempts>>
             = <<h.conn0[1], h.conn0[2], h.conn0[3]>>
       /\ client \notin open
       /\ (h.conn0[1] = 0 \/ h.conn0[1] \notin h.conn0[4]) => open = h.conn0[4]

C20_Witness ==
    /\ op.name = "close"
    /\ pc = "ready"
    /\ client # 0
    /\ client \notin h.conn0[4]
    /\ result = Return(<<>>)

-----------------------------------------------------------------------------
(* Primitives and the connection manager: properties checked under
   SpecPrimitive *)

\* C21: every attempt of each CRUD primitive, retry attempts included, calls
\* _ensure_connection() before it issues its store call, and no store call is
\* issued on an attempt whose _ensure_connection() raised: the attempt in
\* progress has made exactly one _ensure_connection() call, every store call
\* follows a returned _ensure_connection() of its own attempt.
C21_EnsureBeforeStore ==
    op.name # "none" /\ tattempt > 0
    => /\ pc = "ensure" => h.ensureCalls = tattempt - 1
       /\ pc \in {"connect", "store", "done"} => h.ensureCalls = tattempt
       /\ pc = "store" => h.ensured = h.storeCalls + 1
       /\ pc # "store" => h.ensured = h.storeCalls
       /\ h.storeCalls <= h.ensureCalls

C21_Witness ==
    /\ pc = "done"
    /\ op.name = "delete_document"
    /\ tattempt = 3
    /\ h.ensureCalls = 3
    /\ h.storeCalls = 2
    /\ h.probeFails >= 1
    /\ result.kind = "raise"


\* C22: a single CRUD call never makes more than MAX_RECONNECT_ATTEMPTS (5)
\* connection attempts: once its reconnect has used up its 5 attempts, the
\* call fails and no further connection attempt is made for it.
C22_AtMostFiveConnects ==
    op.name # "none" =>
        /\ h.connAttempts <= 5
        /\ (caller = "op" /\ connStatus = "raised") => pc = "done"

\* C23: in _connect() the delay slept after the k-th failed attempt is 2k
\* seconds for 1 <= k <= 4, the delays strictly increase, and nothing is slept
\* after the 5th failed attempt.
C23_LinearDelays ==
    connStatus \in {"running", "returned", "raised"} =>
        LET slept == IF connStatus = "raised" THEN connFails - 1 ELSE connFails IN
        /\ Len(h.delays) = slept
        /\ slept <= 4
        /\ \A k \in 1..Len(h.delays) : h.delays[k] = 2 * k
        /\ \A k \in 1..(Len(h.delays) - 1) : h.delays[k] < h.delays[k + 1]

C23_Witness ==
    /\ connStatus = "raised" /\ connFails = 5
    /\ h.delays = <<2, 4, 6, 8>>

\* C24: the delay between successive retries of a CRUD primitive doubles with
\* each failed attempt until it reaches the cap of 10 seconds, and never
\* exceeds the cap.
C24_WaitDoubles ==
    \A k \in 1..Len(h.waits) :
        /\ h.waits[k] <= 10
        /\ k > 1 => h.waits[k] = Least(2 * h.waits[k - 1], 10)


\* C25: for any execution of insert_document, retries after a write that
\* reached the store included, the collection ends with at most one document
\* carrying the inserted document's identifier: the write is applied at most
\* once, and not at all when the identifier was already there.
C25_InsertAtMostOnce ==
    op.name = "create_user" =>
        /\ Cardinality({d \in users : d.id = op.user.id}) <= 1
        /\ h.applied <= 1
        /\ (\E d \in h.users0 : d.id = op.user.id) => h.applied = 0

C25_Witness ==
    /\ pc = "done" /\ op.name = "create_user"
    /\ h.lostWrite /\ h.storeCalls >= 2 /\ h.applied = 1
    /\ result.kind = "raise"
    /\ op.user \in users /\ op.user \notin h.users0


\* C26: MongoDB() never returns an instance on which _connect() and
\* _ensure_indexes() have not both completed successfully: after a first
\* construction that failed, a later MongoDB() call runs the initialisation
\* again.
C26_NeverReturnsUninitialised ==
    (op.name = "MongoDB" /\ result.kind = "return") =>
        /\ pc = "ready"
        /\ db # 0
        /\ indexes = IndexPrefix(Len(IndexSpecs))


\* C27: whenever no _connect() call is in progress, the db handle is unset or
\* was obtained from the current client handle; after a reconnect that used
\* up its attempts, db does not belong to an earlier client than client.
C27_DbOfCurrentClient ==
    pc # "connect" => (db = 0 \/ db = client)


\* C28: two entities of one type constructed without an explicit identifier
\* receive distinct identifiers: inserting the second into a collection that
\* holds only the first, with another email and no fault of the store,
\* succeeds and leaves two documents.
C28_DefaultIdsDistinct ==
    (/\ pc = "done"
     /\ op.name = "create_user"
     /\ op.user.id = DefaultFactoryId
     /\ Cardinality(h.users0) = 1
     /\ \A d \in h.users0 : d.id = DefaultFactoryId /\ d.email # op.user.email
     /\ h.outage0 = 0 /\ h.faults0 = 0 /\ ~h.reject0)
    => /\ result.kind = "return"
       /\ Cardinality(users) = 2


\* C29: when update_user (update_document with return_updated=True) raises a
\* validation error, the stored document is unchanged: the users collection
\* is the same after the failed call as before it.
C29_FailedUpdateLeavesDocument ==
    (/\ pc = "done"
     /\ op.name = "update_user"
     /\ result.kind = "raise"
     /\ result.exc = "ValidationError")
    => users = h.users0


\* C30: MongoDBConnection._initialize_connection makes up to 3 connection
\* attempts: an attempt other than the last that fails with a connection
\* failure is followed by a wait and another attempt, and the call raises
\* only after the third consecutive failure.
C30_ThreeConnectionAttempts ==
    (/\ op.name = "MongoDBConnection"
     /\ h.kind0 = "unreachable"
     /\ pc = "aborted")
    => /\ connFails = 3
       /\ nclients = 3
       /\ result.exc \in {"ServerSelectionTimeoutError", "AutoReconnect"}

=============================================================================
